---- MODULE Spec2Model ----
(***************************************************************************)
(* A model of the search orchestration engine of rexplorer:                *)
(* BaseRepoSearcher.Search (the template method driving the page loop) and *)
(* BaseRepoSearcher.fetchWithRetries (the retrying fetcher), run against   *)
(* an arbitrary RepoSearcher adapter and an arbitrary HTTP server.         *)
(*                                                                         *)
(* One behaviour of the model is one call of Search.  Every call that      *)
(* leaves the core (buildSearchURL, buildSearchRequest, HTTPClient.Do,     *)
(* parseSearchResponse, time.Sleep) is one action; what the adapter, the   *)
(* server and the caller's context answer is chosen nondeterministically.  *)
(***************************************************************************)
EXTENDS Integers, Sequences, FiniteSets, TLC

(***************************************************************************)
(* Bounds of the model and program constants.                              *)
(***************************************************************************)
\* the largest maxPages a caller passes
MaxPagesBound == 3

\* NewBaseRepoSearcher: MaxRetries: 3
DefaultMaxRetries == 3

\* NewBaseRepoSearcher: RetryDelay: 1 * time.Second (in seconds)
DefaultRetryDelay == 1

\* http.StatusOK
StatusOK == 200

\* the queries a caller passes: the empty one and a real one
Queries == {"", "raft"}

\* the maxPages values a caller passes: non-positive ones and 1..MaxPagesBound
PageCounts == {-1} \cup (0..MaxPagesBound)

\* the record lists an adapter returns for one page (records are numbers):
\* an empty page, one record, two records out of order, a repeated record
PageLists == {<<>>, <<1>>, <<2, 1>>, <<1, 1>>}

\* the totalCount values an adapter returns: the "unknown" sentinel, zero, real
TotalCounts == {-1, 0, 7}

\* the statuses the server answers: 200, another 2xx, the three fatal ones,
\* rate limiting and a server error
Statuses == {200, 201, 401, 403, 404, 429, 500}

(***************************************************************************)
(* Values.                                                                 *)
(***************************************************************************)
\* a nil error
NoErr == [kind |-> "nil"]

\* a nil *SearchResult
NilResult == [isNil |-> TRUE]

\* errors.New("query cannot be empty")
ErrEmptyQuery == [kind |-> "emptyQuery"]

\* errors.New("maxPages must be greater than 0")
ErrMaxPages == [kind |-> "maxPages"]

\* fmt.Errorf("failed to build URL for page %d: %w", page, err)
ErrBuildURL(p) == [kind |-> "buildURL", page |-> p]

\* fmt.Errorf("failed to fetch first page: %w", err)
ErrFirstPage(e) == [kind |-> "firstPage", cause |-> e]

\* fmt.Errorf("failed to create request: %w", err)
ErrCreateRequest == [kind |-> "createRequest"]

\* fmt.Errorf("request failed: %w", err)
ErrTransport == [kind |-> "transport"]

\* fmt.Errorf("request failed: %w", err) with err the context's error
\* (context.Canceled or context.DeadlineExceeded)
ErrCancelled == [kind |-> "cancelled"]

\* fmt.Errorf("api request failed with status %d: %s", resp.StatusCode, body)
ErrStatus(code) == [kind |-> "status", code |-> code]

\* fmt.Errorf("failed to fetch URL after %d attempts: %w", s.MaxRetries, lastErr)
ErrExhausted(n, e) == [kind |-> "exhausted", attempts |-> n, last |-> e]

\* &SearchResult{Source, Query, TotalCount, Items}
MkResult(src, q, tc, items) ==
  [isNil |-> FALSE, Source |-> src, Query |-> q, TotalCount |-> tc, Items |-> items]

VARIABLES
  query,        \* Search's argument query
  maxPages,     \* Search's argument maxPages
  ctxDone,      \* the caller's context is cancelled or past its deadline
  s,            \* the searcher's configuration (BaseRepoSearcher's fields)
  pc,           \* where Search (or fetchWithRetries below it) stands
  page,         \* Search: the loop variable page
  allRepos,     \* Search: allRepos
  totalCount,   \* Search: totalCount
  body,         \* Search: the body fetchWithRetries returned ("nil" or "open")
  fetchErr,     \* Search: the error fetchWithRetries returned
  i,            \* fetchWithRetries: the loop variable i
  delay,        \* fetchWithRetries: delay
  lastErr,      \* fetchWithRetries: lastErr
  resp,         \* fetchWithRetries: resp.StatusCode of the response in hand, 0 if none
  result,       \* what Search returned: the *SearchResult
  err,          \* what Search returned: the error
  openBodies,   \* response bodies obtained and not yet closed
  urlPages,     \* the pages buildSearchURL was called for, in call order
  httpPages,    \* the pages HTTPClient.Do was called for
  nHTTP,        \* HTTPClient.Do calls of the run
  nParse,       \* parseSearchResponse calls of the run
  parseLog,     \* what parseSearchResponse returned for each page it parsed
  nReq,         \* buildSearchRequest calls of the current fetchWithRetries
  nDo,          \* HTTPClient.Do calls of the current fetchWithRetries
  sleeps,       \* the backoff sleeps of the current fetchWithRetries
  paces,        \* the pages the inter-page sleep followed, in order
  failedAt,     \* the page whose step ended the run early, with the step
  peer          \* the frame of a second invocation, on another searcher, while
                \* it is not the one taking steps; NoPeer when there is none

\* all that one invocation of Search owns: its arguments, its context, its
\* searcher's fields, its locals and those of fetchWithRetries, what it
\* returned, and the record of its calls
frame == <<query, maxPages, ctxDone, s, pc, page, allRepos, totalCount, body,
           fetchErr, i, delay, lastErr, resp, result, err, openBodies, urlPages,
           httpPages, nHTTP, nParse, parseLog, nReq, nDo, sleeps, paces, failedAt>>

vars == <<frame, peer>>

\* the variables of Search's frame
searchVars == <<page, allRepos, totalCount, body, fetchErr>>

\* the variables of fetchWithRetries' frame
fetchVars == <<i, delay, lastErr, resp>>

\* what Search returned
retVars == <<result, err>>

\* the record of the calls of the current fetchWithRetries
fetchLog == <<nReq, nDo, sleeps>>

\* the record of the calls of the run
runLog == <<urlPages, httpPages, nHTTP, nParse, parseLog, paces, failedAt>>

\* the caller's arguments and the configuration, and the other invocation:
\* what no step of Search or fetchWithRetries writes
inputs == <<query, maxPages, s, peer>>

\* no step has ended the run early
NoFailure == [page |-> 0, step |-> "none", cause |-> NoErr]

\* no second invocation
NoPeer == <<>>

(***************************************************************************)
(* NewBaseRepoSearcher, and the state before Search is entered.            *)
(***************************************************************************)
\* implementation is the adapter behind the RepoSearcher interface: "any" is an
\* arbitrary one, whose answers are not further determined; Source and BaseURL
\* are left empty by the constructor and set by the adapters' constructors
NewBaseRepoSearcher ==
  [implementation |-> "any",
   MaxRetries |-> DefaultMaxRetries, RetryDelay |-> DefaultRetryDelay,
   Token |-> "token", Source |-> "", BaseURL |-> ""]

\* NewGitLabSearcher: a second searcher, with its own fields
NewGitLabSearcher ==
  [NewBaseRepoSearcher EXCEPT !.implementation = "GitLab",
                              !.Source = "GitLab",
                              !.BaseURL = "https://gitlab.com/api/v4"]

\* NewGitHubSearcher: the base's Source and BaseURL stay empty (the URL is a
\* field of GitHubSearcher itself)
NewGitHubSearcher ==
  [NewBaseRepoSearcher EXCEPT !.implementation = "GitHub"]

\* NewBitbucketSearcher
NewBitbucketSearcher ==
  [NewBaseRepoSearcher EXCEPT !.implementation = "Bitbucket",
                              !.Source = "Bitbucket",
                              !.BaseURL = "https://api.bitbucket.org/2.0"]

\* NewGitCodeSearcher
NewGitCodeSearcher ==
  [NewBaseRepoSearcher EXCEPT !.implementation = "GitCode",
                              !.Source = "GitCode",
                              !.BaseURL = "https://api.gitcode.com/api/v5"]

\* NewGiteeSearcher: as NewGitHubSearcher, the base's Source and BaseURL stay empty
NewGiteeSearcher ==
  [NewBaseRepoSearcher EXCEPT !.implementation = "Gitee"]

\* the state of an invocation before Search is entered
InitSearch ==
  /\ ctxDone = FALSE
  /\ pc = "start"
  /\ page = 0
  /\ allRepos = <<>>
  /\ totalCount = 0
  /\ body = "nil"
  /\ fetchErr = NoErr
  /\ i = 0
  /\ delay = 0
  /\ lastErr = NoErr
  /\ resp = 0
  /\ result = NilResult
  /\ err = NoErr
  /\ openBodies = 0
  /\ urlPages = <<>>
  /\ httpPages = {}
  /\ nHTTP = 0
  /\ nParse = 0
  /\ parseLog = <<>>
  /\ nReq = 0
  /\ nDo = 0
  /\ sleeps = <<>>
  /\ paces = <<>>
  /\ failedAt = NoFailure

\* one invocation, with any arguments
Init ==
  /\ query \in Queries
  /\ maxPages \in PageCounts
  /\ s = NewBaseRepoSearcher
  /\ InitSearch
  /\ peer = NoPeer

\* the frame of an invocation before Search is entered
InitFrame(q, mp, cfg) ==
  <<q, mp, FALSE, cfg, "start", 0, <<>>, 0, "nil", NoErr, 0, 0, NoErr, 0,
    NilResult, NoErr, 0, <<>>, {}, 0, 0, <<>>, 0, 0, <<>>, <<>>, NoFailure>>

\* two invocations on two searchers: one asks GitHub for two pages, the other
\* GitLab for one
InitConc ==
  /\ query = "raft"
  /\ maxPages = 2
  /\ s = NewBaseRepoSearcher
  /\ InitSearch
  /\ peer = InitFrame("raft", 1, NewGitLabSearcher)

(***************************************************************************)
(* Search.                                                                 *)
(***************************************************************************)
\* ArgsError without the maxPages check
ArgsErrorQueryOnly(q, mp) ==
  IF q = "" THEN ErrEmptyQuery ELSE NoErr

\* Search's argument checks: the error it returns, NoErr if none
ArgsError(q, mp) ==
  IF q = "" THEN ErrEmptyQuery
  ELSE IF mp <= 0 THEN ErrMaxPages
  ELSE NoErr

\* ReturnError with the accumulated result returned beside the error
ReturnErrorWithResult(e) ==
  /\ result' = MkResult(s.Source, query, totalCount, allRepos)
  /\ err' = e
  /\ pc' = "done"

\* return nil, e
ReturnError(e) ==
  /\ result' = NilResult
  /\ err' = e
  /\ pc' = "done"

\* return &SearchResult{...}, nil  (the statement after the loop)
ReturnResult(tc, items) ==
  /\ result' = MkResult(s.Source, query, tc, items)
  /\ err' = NoErr
  /\ pc' = "done"

\* LoopTest off by one: page <= maxPages + 1
LoopTestOffByOne(p, mp) == p <= mp + 1

\* the loop test of  for page := 1; page <= maxPages; page++
LoopTest(p, mp) == p <= mp

\* Search's entry: the argument checks, the locals, the first loop test
SearchEnter ==
  /\ pc = "start"
  /\ IF ArgsError(query, maxPages) # NoErr
       THEN /\ ReturnError(ArgsError(query, maxPages))
            /\ UNCHANGED page
       ELSE /\ page' = 1
            /\ IF LoopTest(1, maxPages)
                 THEN /\ pc' = "buildURL"
                      /\ UNCHANGED retVars
                 ELSE ReturnResult(totalCount, allRepos)
  /\ UNCHANGED <<inputs, ctxDone, allRepos, totalCount, body, fetchErr,
                 fetchVars, openBodies, fetchLog, runLog>>

\* BuildURLFailed as the fetch failure is handled: fatal on page 1 only
BuildURLFailedPartial(p) ==
  /\ IF p = 1
       THEN ReturnError(ErrBuildURL(p))
       ELSE ReturnResult(totalCount, allRepos)
  /\ failedAt' = [page |-> p, step |-> "buildURL", cause |-> NoErr]
  /\ UNCHANGED fetchVars

\* what Search does when buildSearchURL fails on page p
BuildURLFailed(p) ==
  /\ ReturnError(ErrBuildURL(p))
  /\ failedAt' = [page |-> p, step |-> "buildURL", cause |-> NoErr]
  /\ UNCHANGED fetchVars

\* FetchEnter with the delay kept across fetches: it starts doubled when an
\* earlier page's fetch has retried
FetchEnterSharedDelay ==
  /\ i' = 0
  /\ delay' = IF nHTTP > page - 1 THEN s.RetryDelay * 2 ELSE s.RetryDelay
  /\ lastErr' = NoErr
  /\ resp' = 0
  /\ IF 0 < s.MaxRetries
       THEN /\ pc' = "buildReq"
            /\ UNCHANGED fetchErr
       ELSE /\ pc' = "fetchRet"
            /\ fetchErr' = ErrExhausted(s.MaxRetries, NoErr)

\* the entry of fetchWithRetries: its locals and its first loop test
FetchEnter ==
  /\ i' = 0
  /\ delay' = s.RetryDelay
  /\ lastErr' = NoErr
  /\ resp' = 0
  /\ IF 0 < s.MaxRetries
       THEN /\ pc' = "buildReq"
            /\ UNCHANGED fetchErr
       ELSE /\ pc' = "fetchRet"
            /\ fetchErr' = ErrExhausted(s.MaxRetries, NoErr)

\* step 1 of the loop: the adapter's buildSearchURL, then fetchWithRetries begins
buildSearchURL ==
  /\ pc = "buildURL"
  /\ urlPages' = Append(urlPages, page)
  /\ \E ok \in BOOLEAN :
       IF ok
         THEN /\ FetchEnter
              /\ UNCHANGED <<retVars, failedAt>>
         ELSE /\ BuildURLFailed(page)
              /\ UNCHANGED fetchErr
  /\ UNCHANGED <<inputs, ctxDone, page, allRepos, totalCount, body,
                 openBodies, fetchLog, httpPages, nHTTP, nParse, parseLog, paces>>

(***************************************************************************)
(* fetchWithRetries.                                                       *)
(***************************************************************************)
\* NextAttempt with the request of the attempt before sent again
NextAttemptReuse(n, le) ==
  /\ i' = n + 1
  /\ IF n + 1 < s.MaxRetries
       THEN /\ pc' = "do"
            /\ UNCHANGED fetchErr
       ELSE /\ pc' = "fetchRet"
            /\ fetchErr' = ErrExhausted(s.MaxRetries, le)

\* NextAttempt with the loop test i <= s.MaxRetries: one attempt more
NextAttemptOneMore(n, le) ==
  /\ i' = n + 1
  /\ IF n + 1 <= s.MaxRetries
       THEN /\ pc' = "buildReq"
            /\ UNCHANGED fetchErr
       ELSE /\ pc' = "fetchRet"
            /\ fetchErr' = ErrExhausted(s.MaxRetries, le)

\* the loop's i++ and its test i < s.MaxRetries, after the attempt numbered n
\* (from 0); past the loop, the error of the exhausted attempts
NextAttempt(n, le) ==
  /\ i' = n + 1
  /\ IF n + 1 < s.MaxRetries
       THEN /\ pc' = "buildReq"
            /\ UNCHANGED fetchErr
       ELSE /\ pc' = "fetchRet"
            /\ fetchErr' = ErrExhausted(s.MaxRetries, le)

\* buildSearchRequest with its failure slept on and retried as a failed attempt
buildSearchRequestRetried ==
  /\ pc = "buildReq"
  /\ nReq' = nReq + 1
  /\ \E ok \in BOOLEAN :
       IF ok
         THEN /\ pc' = "do"
              /\ UNCHANGED fetchErr
         ELSE /\ pc' = "backoff"
              /\ UNCHANGED fetchErr
  /\ UNCHANGED <<inputs, ctxDone, page, allRepos, totalCount, body, fetchVars,
                 retVars, openBodies, nDo, sleeps, runLog>>

\* the adapter's buildSearchRequest for this attempt
buildSearchRequest ==
  /\ pc = "buildReq"
  /\ nReq' = nReq + 1
  /\ \E ok \in BOOLEAN :
       IF ok
         THEN /\ pc' = "do"
              /\ UNCHANGED fetchErr
         ELSE /\ pc' = "fetchRet"
              /\ fetchErr' = ErrCreateRequest
  /\ UNCHANGED <<inputs, ctxDone, page, allRepos, totalCount, body, fetchVars,
                 retVars, openBodies, nDo, sleeps, runLog>>

\* what s.HTTPClient.Do can answer: a transport failure (0) or a response with
\* a status; with the context done, the client returns the context's error
DoOutcomes == IF ctxDone THEN {0} ELSE {0} \cup Statuses

\* SetLastErr keeping the first error of the fetch
KeepFirstErr(old, e) == IF old = NoErr THEN e ELSE old

\* lastErr = fmt.Errorf(...): the error of this attempt replaces the one before
SetLastErr(old, e) == e

\* s.HTTPClient.Do(req); a transport failure goes to sleep at once
HTTPClientDo ==
  /\ pc = "do"
  /\ nDo' = nDo + 1
  /\ nHTTP' = nHTTP + 1
  /\ httpPages' = httpPages \cup {page}
  /\ \E out \in DoOutcomes :
       IF out = 0
         THEN /\ lastErr' = SetLastErr(lastErr, IF ctxDone THEN ErrCancelled
                                                           ELSE ErrTransport)
              /\ pc' = "backoff"
              /\ UNCHANGED <<resp, openBodies>>
         ELSE /\ resp' = out
              /\ openBodies' = openBodies + 1
              /\ pc' = "status"
              /\ UNCHANGED lastErr
  /\ UNCHANGED <<inputs, ctxDone, searchVars, i, delay, retVars, nReq, sleeps,
                 urlPages, nParse, parseLog, paces, failedAt>>

\* DrainAndClose with the Close forgotten
DrainAndCloseLeak(n) == n

\* io.ReadAll(resp.Body); resp.Body.Close(): one open body fewer
DrainAndClose(n) == n - 1

\* resp.StatusCode == http.StatusOK
IsSuccess(code) == code = StatusOK

\* NonRetryable without 404
NonRetryableAuthOnly(code) == code \in {401, 403}

\* the statuses fetchWithRetries does not retry
NonRetryable(code) == code \in {401, 403, 404}

\* the response in hand: returned when successful; otherwise drained and
\* closed, and then returned as an error or slept on
CheckStatus ==
  /\ pc = "status"
  /\ resp' = 0
  /\ IF IsSuccess(resp)
       THEN /\ body' = "open"
            /\ fetchErr' = NoErr
            /\ pc' = "fetchRet"
            /\ UNCHANGED <<lastErr, openBodies>>
       ELSE /\ openBodies' = DrainAndClose(openBodies)
            /\ lastErr' = SetLastErr(lastErr, ErrStatus(resp))
            /\ IF NonRetryable(resp)
                 THEN /\ fetchErr' = lastErr'
                      /\ pc' = "fetchRet"
                 ELSE /\ pc' = "backoff"
                      /\ UNCHANGED fetchErr
            /\ UNCHANGED body
  /\ UNCHANGED <<inputs, ctxDone, page, allRepos, totalCount, i, delay,
                 retVars, fetchLog, runLog>>

\* NextDelay growing by a step instead of doubling
NextDelayLinear(d) == d + 1

\* delay *= 2
NextDelay(d) == d * 2

\* BackoffSleep without the sleep when no attempt is left
BackoffSleepSkipLast ==
  /\ pc = "backoff"
  /\ sleeps' = IF i + 1 < s.MaxRetries THEN Append(sleeps, delay) ELSE sleeps
  /\ delay' = NextDelay(delay)
  /\ NextAttempt(i, lastErr)
  /\ UNCHANGED <<inputs, ctxDone, page, allRepos, totalCount, body, lastErr,
                 resp, retVars, openBodies, nReq, nDo, runLog>>

\* the end of time.Sleep(delay): the delay doubles and the loop goes on
BackoffSleep ==
  /\ pc = "backoff"
  /\ sleeps' = Append(sleeps, delay)
  /\ delay' = NextDelay(delay)
  /\ NextAttempt(i, lastErr)
  /\ UNCHANGED <<inputs, ctxDone, page, allRepos, totalCount, body, lastErr,
                 resp, retVars, openBodies, nReq, nDo, runLog>>

(***************************************************************************)
(* Search, after fetchWithRetries returned.                                *)
(***************************************************************************)
\* FetchFailed without the page == 1 test: always the partial result
FetchFailedPartial(p, tc, items) ==
  /\ ReturnResult(tc, items)
  /\ failedAt' = [page |-> p, step |-> "fetch", cause |-> fetchErr]

\* FetchFailed with the error returned on every page
FetchFailedFatal(p, tc, items) ==
  /\ ReturnError(ErrFirstPage(fetchErr))
  /\ failedAt' = [page |-> p, step |-> "fetch", cause |-> fetchErr]

\* FetchFailed with the error returned beside the partial result on later pages
FetchFailedBoth(p, tc, items) ==
  /\ IF p = 1
       THEN ReturnError(ErrFirstPage(fetchErr))
       ELSE /\ result' = MkResult(s.Source, query, tc, items)
            /\ err' = ErrFirstPage(fetchErr)
            /\ pc' = "done"
  /\ failedAt' = [page |-> p, step |-> "fetch", cause |-> fetchErr]

\* what Search does when the fetch of page p failed with items collected
FetchFailed(p, tc, items) ==
  /\ IF p = 1
       THEN ReturnError(ErrFirstPage(fetchErr))
       ELSE ReturnResult(tc, items)
  /\ failedAt' = [page |-> p, step |-> "fetch", cause |-> fetchErr]

\* fetchWithRetries returns to Search, which looks at the error
\* (a nil body with a nil error, the continue of line 128-130, is not an
\* outcome: fetchWithRetries returns resp.Body, which net/http never leaves nil)
FetchReturn ==
  /\ pc = "fetchRet"
  /\ i' = 0
  /\ delay' = 0
  /\ lastErr' = NoErr
  /\ nReq' = 0
  /\ nDo' = 0
  /\ sleeps' = <<>>
  /\ fetchErr' = NoErr
  /\ IF fetchErr # NoErr
       THEN FetchFailed(page, totalCount, allRepos)
       ELSE /\ pc' = "parse"
            /\ UNCHANGED <<retVars, failedAt>>
  /\ UNCHANGED <<inputs, ctxDone, page, allRepos, totalCount, body, resp,
                 openBodies, urlPages, httpPages, nHTTP, nParse, parseLog, paces>>

\* KeepTotal without the page == 1 test
KeepLatestTotal(p, tc, old) == tc

\* if page == 1 { totalCount = tc }
KeepTotal(p, tc, old) == IF p = 1 THEN tc ELSE old

\* AppendRepos with the new page put first
PrependRepos(items, repos) == repos \o items

\* allRepos = append(allRepos, repos...)
AppendRepos(items, repos) == items \o repos

\* StopsAfter without the len(repos) == 0 test
StopsAfterHasMoreOnly(repos, hasMore) == ~hasMore

\* if !hasMore || len(repos) == 0 { break }
StopsAfter(repos, hasMore) == ~hasMore \/ Len(repos) = 0

\* ParseFailed handled as a fetch failure: an error on page 1
ParseFailedFatalOnFirst(p, tc, items) ==
  /\ IF p = 1
       THEN ReturnError(ErrFirstPage(NoErr))
       ELSE ReturnResult(tc, items)
  /\ failedAt' = [page |-> p, step |-> "parse", cause |-> NoErr]
  /\ UNCHANGED <<page, allRepos, totalCount, parseLog>>

\* ParseFailed with the page tried again
ParseFailedRetry(p, tc, items) ==
  /\ pc' = "buildURL"
  /\ UNCHANGED <<retVars, failedAt, page, allRepos, totalCount, parseLog>>

\* ParseFailed with the "unknown" sentinel as the total of a run without page 1
ParseFailedUnknownTotal(p, tc, items) ==
  /\ ReturnResult(IF p = 1 THEN -1 ELSE tc, items)
  /\ failedAt' = [page |-> p, step |-> "parse", cause |-> NoErr]
  /\ UNCHANGED <<page, allRepos, totalCount, parseLog>>

\* what Search does when parseSearchResponse fails on page p
ParseFailed(p, tc, items) ==
  /\ ReturnResult(tc, items)
  /\ failedAt' = [page |-> p, step |-> "parse", cause |-> NoErr]
  /\ UNCHANGED <<page, allRepos, totalCount, parseLog>>

\* PacesAfter without the page < maxPages test
PacesAfterAlways(p, mp) == TRUE

\* if page < maxPages { time.Sleep(100 * time.Millisecond) }
PacesAfter(p, mp) == p < mp

\* what Search does with a parsed page: total, append, stop or go on
PageParsed(repos, tc, hasMore) ==
  /\ parseLog' = Append(parseLog, [page |-> page, repos |-> repos, tc |-> tc,
                                   hasMore |-> hasMore])
  /\ totalCount' = KeepTotal(page, tc, totalCount)
  /\ allRepos' = AppendRepos(allRepos, repos)
  /\ IF StopsAfter(repos, hasMore)
       THEN /\ ReturnResult(totalCount', allRepos')
            /\ UNCHANGED page
       ELSE IF PacesAfter(page, maxPages)
         THEN /\ pc' = "pace"
              /\ UNCHANGED <<page, retVars>>
         ELSE /\ page' = page + 1
              /\ IF LoopTest(page + 1, maxPages)
                   THEN /\ pc' = "buildURL"
                        /\ UNCHANGED retVars
                   ELSE ReturnResult(totalCount', allRepos')
  /\ UNCHANGED failedAt

\* CloseBody with the Close forgotten
CloseBodyLeak(n) == n

\* body.Close(), after the parse or its failure: one open body fewer
CloseBody(n) == n - 1

\* step 3 of the loop: the adapter's parseSearchResponse, body.Close(), and
\* the rest of the iteration up to the sleep or the return
parseSearchResponse ==
  /\ pc = "parse"
  /\ nParse' = nParse + 1
  /\ body' = "nil"
  /\ openBodies' = CloseBody(openBodies)
  /\ \/ ParseFailed(page, totalCount, allRepos)
     \/ \E repos \in PageLists, tc \in TotalCounts, hasMore \in BOOLEAN :
          PageParsed(repos, tc, hasMore)
  /\ UNCHANGED <<inputs, ctxDone, fetchErr, fetchVars, fetchLog, urlPages,
                 httpPages, nHTTP, paces>>

\* the end of time.Sleep(100 * time.Millisecond), page++ and the loop test
PaceSleep ==
  /\ pc = "pace"
  /\ paces' = Append(paces, page)
  /\ page' = page + 1
  /\ IF LoopTest(page + 1, maxPages)
       THEN /\ pc' = "buildURL"
            /\ UNCHANGED retVars
       ELSE ReturnResult(totalCount, allRepos)
  /\ UNCHANGED <<inputs, ctxDone, allRepos, totalCount, body, fetchErr,
                 fetchVars, openBodies, fetchLog, urlPages, httpPages, nHTTP,
                 nParse, parseLog, failedAt>>

\* the caller cancels the context, or its deadline passes, during the run
Cancel ==
  /\ pc # "done"
  /\ ~ctxDone
  /\ ctxDone' = TRUE
  /\ UNCHANGED <<inputs, pc, searchVars, fetchVars, retVars, openBodies,
                 fetchLog, runLog>>

Next ==
  \/ SearchEnter
  \/ buildSearchURL
  \/ buildSearchRequest
  \/ HTTPClientDo
  \/ CheckStatus
  \/ BackoffSleep
  \/ FetchReturn
  \/ parseSearchResponse
  \/ PaceSleep
  \/ Cancel

Spec == Init /\ [][Next]_vars

(***************************************************************************)
(* Two invocations running concurrently on separate searchers.             *)
(***************************************************************************)
\* Switch with allRepos kept in a variable the two invocations share
SwitchSharedRepos ==
  /\ peer # NoPeer
  /\ peer' = frame
  /\ query' = peer[1] /\ maxPages' = peer[2] /\ ctxDone' = peer[3]
  /\ s' = peer[4] /\ pc' = peer[5] /\ page' = peer[6]
  /\ allRepos' = allRepos /\ totalCount' = peer[8] /\ body' = peer[9]
  /\ fetchErr' = peer[10] /\ i' = peer[11] /\ delay' = peer[12]
  /\ lastErr' = peer[13] /\ resp' = peer[14] /\ result' = peer[15]
  /\ err' = peer[16] /\ openBodies' = peer[17] /\ urlPages' = peer[18]
  /\ httpPages' = peer[19] /\ nHTTP' = peer[20] /\ nParse' = peer[21]
  /\ parseLog' = peer[22] /\ nReq' = peer[23] /\ nDo' = peer[24]
  /\ sleeps' = peer[25] /\ paces' = peer[26] /\ failedAt' = peer[27]

\* the scheduler takes the running invocation off and puts the other on: each
\* keeps its own searcher, arguments, context and locals, and nothing else exists
Switch ==
  /\ peer # NoPeer
  /\ peer' = frame
  /\ query' = peer[1] /\ maxPages' = peer[2] /\ ctxDone' = peer[3]
  /\ s' = peer[4] /\ pc' = peer[5] /\ page' = peer[6]
  /\ allRepos' = peer[7] /\ totalCount' = peer[8] /\ body' = peer[9]
  /\ fetchErr' = peer[10] /\ i' = peer[11] /\ delay' = peer[12]
  /\ lastErr' = peer[13] /\ resp' = peer[14] /\ result' = peer[15]
  /\ err' = peer[16] /\ openBodies' = peer[17] /\ urlPages' = peer[18]
  /\ httpPages' = peer[19] /\ nHTTP' = peer[20] /\ nParse' = peer[21]
  /\ parseLog' = peer[22] /\ nReq' = peer[23] /\ nDo' = peer[24]
  /\ sleeps' = peer[25] /\ paces' = peer[26] /\ failedAt' = peer[27]

\* a step of the running invocation (its context is not cancelled here), or a
\* switch to the other
NextConc ==
  \/ SearchEnter
  \/ buildSearchURL
  \/ buildSearchRequest
  \/ HTTPClientDo
  \/ CheckStatus
  \/ BackoffSleep
  \/ FetchReturn
  \/ parseSearchResponse
  \/ PaceSleep
  \/ Switch

ConcSpec == InitConc /\ [][NextConc]_vars

(***************************************************************************)
(* The five adapters: parseSearchResponse and mapRepoToSummary of GitHub,  *)
(* GitLab, Bitbucket, GitCode and Gitee, and a Search run against each.    *)
(* Of a repository only the fields with a sentinel are kept: the language, *)
(* the license and the topics.                                             *)
(***************************************************************************)
\* a nil pointer, a nil slice; what JSON null or an absent key decodes to
Nil == [isNil |-> TRUE]

\* a pointer to v, a non-nil slice of elements v; what a JSON value decodes to
Ref(v) == [isNil |-> FALSE, val |-> v]

\* a repository as decoded with every key present
FullRepo ==
  [language |-> Ref("Go"), license |-> Ref("MIT"), topics |-> Ref(<<"cli">>)]

\* a repository as decoded with "language", "license" and "topics" null or absent
BareRepo == [language |-> Nil, license |-> Nil, topics |-> Nil]

\* a repository as decoded with an empty language, an empty license name and
\* an empty topics array
BlankRepo == [language |-> Ref(""), license |-> Ref(""), topics |-> Ref(<<>>)]

\* the pages a provider answers, as decoded
WirePages == {<<>>, <<FullRepo>>, <<BareRepo>>, <<BlankRepo>>, <<BareRepo, FullRepo>>}

\* total_count (GitHub) and size (Bitbucket) of a response
WireTotals == {0, 7}

\* next (Bitbucket) of a response: absent, or the next page's URL
WireNexts == {"", "next"}

\* encoding/json into a field of type string: null or an absent key leaves ""
DecodeString(j) == IF j.isNil THEN "" ELSE j.val

\* language := "Unknown"; if repo.Language != nil && *repo.Language != "" {...}
LanguageOrUnknown(p) == IF ~p.isNil /\ p.val # "" THEN p.val ELSE "Unknown"

\* license := "None"; if repo.License != nil && repo.License.Name != "" {...}
LicenseOrNone(p) == IF ~p.isNil /\ p.val # "" THEN p.val ELSE "None"

\* GitHubSearcher.mapRepoToSummary
GitHubMapRepoToSummary(repo) ==
  [Language |-> LanguageOrUnknown(repo.language),
   License |-> LicenseOrNone(repo.license),
   Topics |-> repo.topics]

\* GitLabSearcher.mapRepoToSummary: the language is not in the response
GitLabMapRepoToSummary(repo) ==
  [Language |-> "Unknown",
   License |-> LicenseOrNone(repo.license),
   Topics |-> repo.topics]

\* BitbucketSearcher.mapRepoToSummary: Language is a string, the license and
\* the topics are not in the response
BitbucketMapRepoToSummary(repo) ==
  [Language |-> IF DecodeString(repo.language) # ""
                  THEN DecodeString(repo.language) ELSE "Unknown",
   License |-> "Unknown",
   Topics |-> Ref(<<>>)]

\* GitCodeSearcher.mapRepoToSummary
GitCodeMapRepoToSummary(repo) ==
  [Language |-> LanguageOrUnknown(repo.language),
   License |-> LicenseOrNone(repo.license),
   Topics |-> repo.topics]

\* GiteeSearcher.mapRepoToSummary: the license is a plain string
GiteeMapRepoToSummary(repo) ==
  [Language |-> LanguageOrUnknown(repo.language),
   License |-> LicenseOrNone(repo.license),
   Topics |-> repo.topics]

\* s.implementation's mapRepoToSummary
mapRepoToSummary(impl, repo) ==
  CASE impl = "GitHub" -> GitHubMapRepoToSummary(repo)
    [] impl = "GitLab" -> GitLabMapRepoToSummary(repo)
    [] impl = "Bitbucket" -> BitbucketMapRepoToSummary(repo)
    [] impl = "GitCode" -> GitCodeMapRepoToSummary(repo)
    [] impl = "Gitee" -> GiteeMapRepoToSummary(repo)

\* summaries[i] = mapRepoToSummary(repo) for every repository of the page
MapPage(impl, wire) ==
  [k \in 1..Len(wire) |-> mapRepoToSummary(impl, wire[k])]

\* HasMoreByLen answering true whatever the page holds
HasMoreAlways(n) == TRUE

\* hasMore = len(repos) > 0
HasMoreByLen(n) == n > 0

\* the hasMore of s.implementation's parseSearchResponse: Bitbucket's is
\* resp.Next != "", the others' is len > 0
AdapterHasMore(impl, n, next) ==
  IF impl = "Bitbucket" THEN next # "" ELSE HasMoreByLen(n)

\* the totalCount of s.implementation's parseSearchResponse: GitHub's
\* total_count, Bitbucket's size, -1 for the others
AdapterTotalCount(impl, total) ==
  IF impl \in {"GitHub", "Bitbucket"} THEN total ELSE -1

\* step 3 of the loop with a concrete adapter: the response is decoded (or
\* fails to decode), mapped, and what the adapter returns is what it computes
adapterParseSearchResponse ==
  /\ pc = "parse"
  /\ s.implementation # "any"
  /\ nParse' = nParse + 1
  /\ body' = "nil"
  /\ openBodies' = CloseBody(openBodies)
  /\ \/ ParseFailed(page, totalCount, allRepos)
     \/ \E wire \in WirePages, total \in WireTotals, next \in WireNexts :
          PageParsed(MapPage(s.implementation, wire),
                     AdapterTotalCount(s.implementation, total),
                     AdapterHasMore(s.implementation, Len(wire), next))
  /\ UNCHANGED <<inputs, ctxDone, fetchErr, fetchVars, fetchLog, urlPages,
                 httpPages, nHTTP, paces>>

\* the searchers main can construct
Searchers ==
  {NewGitHubSearcher, NewGitLabSearcher, NewBitbucketSearcher,
   NewGitCodeSearcher, NewGiteeSearcher}

\* one invocation on one of the five searchers
InitAdapter ==
  /\ query = "raft"
  /\ maxPages \in 1..MaxPagesBound
  /\ s \in Searchers
  /\ InitSearch
  /\ peer = NoPeer

\* a step of the invocation (its context is not cancelled here); whether the
\* adapter's buildSearchURL and buildSearchRequest fail stays undetermined
NextAdapter ==
  \/ SearchEnter
  \/ buildSearchURL
  \/ buildSearchRequest
  \/ HTTPClientDo
  \/ CheckStatus
  \/ BackoffSleep
  \/ FetchReturn
  \/ adapterParseSearchResponse
  \/ PaceSleep

AdapterSpec == InitAdapter /\ [][NextAdapter]_vars

(***************************************************************************)
(* One invocation that keeps running: Search is one thread of sequential   *)
(* code, every call it makes returns and every sleep ends, so a step that  *)
(* can be taken is taken.                                                  *)
(***************************************************************************)
LiveSpec == Spec /\ WF_vars(Next)

(***************************************************************************)
(* Types.                                                                  *)
(***************************************************************************)
TypeOK ==
  /\ pc \in {"start", "buildURL", "buildReq", "do", "status", "backoff",
             "fetchRet", "parse", "pace", "done"}
  /\ page \in 0..(MaxPagesBound + 1)
  /\ openBodies \in 0..1
  /\ body \in {"nil", "open"}

(***************************************************************************)
(* Properties.                                                             *)
(***************************************************************************)
\* Search has returned
Returned == pc = "done"

\* Search returned a result
ReturnedResult == Returned /\ ~result.isNil

\* the records of the parsed pages, page after page, each in the adapter's order
RECURSIVE ConcatPages(_)
ConcatPages(log) ==
  IF log = <<>> THEN <<>>
  ELSE ConcatPages(SubSeq(log, 1, Len(log) - 1)) \o log[Len(log)].repos

\* the statuses the specification calls fatal
FatalStatuses == {401, 403, 404}

\* C1: Search called with an empty query or with maxPages <= 0 returns an
\* error and no result, and no adapter operation and no HTTP call is ever made.
C1_InvalidArgsFailBeforeIO ==
  (query = "" \/ maxPages <= 0) =>
    /\ pc \in {"start", "done"}
    /\ urlPages = <<>> /\ nReq = 0 /\ nDo = 0 /\ nHTTP = 0 /\ nParse = 0
    /\ httpPages = {} /\ openBodies = 0
    /\ Returned => /\ result = NilResult
                   /\ err = IF query = "" THEN ErrEmptyQuery ELSE ErrMaxPages

C1_Witness ==
  /\ Returned /\ query = "" /\ maxPages = MaxPagesBound
  /\ err = ErrEmptyQuery /\ result = NilResult

\* C2: with valid arguments a run starts at least 1 and at most maxPages pages,
\* sends HTTP requests for at most maxPages pages, and for no page only when
\* the adapter failed to build page 1's URL or request; nothing follows page
\* maxPages, whatever it reported.
C2_PagesBetweenOneAndMaxPages ==
  (query # "" /\ maxPages >= 1) =>
    /\ Len(urlPages) <= maxPages
    /\ \A k \in 1..Len(urlPages) : urlPages[k] = k
    /\ httpPages \subseteq 1..Len(urlPages)
    /\ Len(parseLog) <= maxPages
    /\ Returned =>
         /\ Len(urlPages) >= 1
         /\ httpPages = {} =>
              err \in {ErrBuildURL(1), ErrFirstPage(ErrCreateRequest)}

C2_Witness ==
  /\ Returned /\ maxPages = 2 /\ Len(parseLog) = 2
  /\ parseLog[2].hasMore /\ parseLog[2].repos = <<2, 1>>
  /\ urlPages = <<1, 2>> /\ httpPages = {1, 2}

\* C3: once a parsed page reports hasMore = false or holds zero records, it is
\* the last page: no URL is built and no HTTP request sent for a later page, and
\* Search has returned, without error, the records of the pages parsed.
C3_StopsAtLastPage ==
  \A k \in 1..Len(parseLog) :
    (~parseLog[k].hasMore \/ Len(parseLog[k].repos) = 0) =>
      /\ k = Len(parseLog)
      /\ parseLog[k].page = k
      /\ Len(urlPages) = k
      /\ httpPages = 1..k
      /\ Returned /\ err = NoErr /\ ~result.isNil
      /\ result.Items = ConcatPages(parseLog)

C3_Witness ==
  /\ Returned /\ maxPages = 3 /\ Len(parseLog) = 2
  /\ parseLog[2].hasMore /\ parseLog[2].repos = <<>>
  /\ result.Items = parseLog[1].repos

\* C4: the Items of a returned result are the concatenation, in page order, of
\* the record lists the adapter returned for the parsed pages, nothing dropped,
\* repeated, reordered or deduplicated.
C4_ItemsAreConcatenation ==
  /\ allRepos = ConcatPages(parseLog)
  /\ \A k \in 1..Len(parseLog) : parseLog[k].page = k
  /\ ReturnedResult => result.Items = ConcatPages(parseLog)

C4_Witness ==
  /\ ReturnedResult /\ Len(parseLog) = 2
  /\ parseLog[1].repos = <<2, 1>> /\ parseLog[2].repos = <<1, 1>>
  /\ result.Items = <<2, 1, 1, 1>>

\* C5: the TotalCount of a returned result is the totalCount the adapter
\* returned for page 1, whatever it returned for later pages.
C5_TotalCountFromFirstPage ==
  (ReturnedResult /\ Len(parseLog) >= 1) => result.TotalCount = parseLog[1].tc

C5_Witness ==
  /\ ReturnedResult /\ Len(parseLog) = 3
  /\ parseLog[1].tc = -1 /\ parseLog[2].tc = 7 /\ parseLog[3].tc = 0
  /\ result.TotalCount = -1

\* C6: when the fetch of page 1 fails, Search returns an error and no result,
\* parseSearchResponse is never called and no later page is requested.
C6_FirstPageFetchFailureIsFatal ==
  (failedAt.step = "fetch" /\ failedAt.page = 1) =>
    /\ Returned /\ result = NilResult
    /\ err = ErrFirstPage(failedAt.cause) /\ failedAt.cause # NoErr
    /\ nParse = 0 /\ parseLog = <<>>
    /\ urlPages = <<1>> /\ httpPages \subseteq {1}

C6_Witness ==
  /\ Returned /\ result = NilResult
  /\ err = ErrFirstPage(ErrExhausted(DefaultMaxRetries, ErrStatus(500)))

\* C7: when pages 1..k-1 were parsed and the fetch of page k >= 2 fails, Search
\* has returned, with a nil error and no further page requested, a result whose
\* Items are the records of pages 1..k-1.
C7_LaterPageFetchFailureIsPartial ==
  (failedAt.step = "fetch" /\ failedAt.page >= 2) =>
    /\ Returned /\ err = NoErr /\ ~result.isNil
    /\ Len(parseLog) = failedAt.page - 1
    /\ nParse = failedAt.page - 1
    /\ result.Items = ConcatPages(parseLog)
    /\ Len(urlPages) = failedAt.page
    /\ httpPages \subseteq 1..failedAt.page

C7_Witness ==
  /\ Returned /\ maxPages = 3
  /\ failedAt = [page |-> 2, step |-> "fetch",
                 cause |-> ErrExhausted(DefaultMaxRetries, ErrStatus(500))]
  /\ err = NoErr /\ result.Items = <<2, 1>>

\* C8: when parseSearchResponse fails on page k (k = 1 included), Search has
\* returned without error, the page is parsed once and no page follows it, and
\* the result holds the records of pages 1..k-1.
C8_ParseFailureIsPartial ==
  failedAt.step = "parse" =>
    /\ Returned /\ err = NoErr /\ ~result.isNil
    /\ Len(parseLog) = failedAt.page - 1
    /\ nParse = failedAt.page
    /\ result.Items = ConcatPages(parseLog)
    /\ Len(urlPages) = failedAt.page
    /\ httpPages = 1..failedAt.page

C8_Witness ==
  /\ Returned /\ failedAt.step = "parse" /\ failedAt.page = 1
  /\ err = NoErr /\ ~result.isNil /\ result.Items = <<>>

C10_FatalStatusReturnsAtOnce ==
  /\ \A c \in FatalStatuses :
       lastErr = ErrStatus(c) =>
         /\ pc = "fetchRet" /\ fetchErr = ErrStatus(c) /\ body = "nil"
         /\ Len(sleeps) = nDo - 1 /\ nReq = nDo /\ i = nDo - 1
         /\ openBodies = 0
  /\ \A c \in FatalStatuses :
       (failedAt.cause = ErrStatus(c)) => Returned
  /\ (pc = "backoff" /\ lastErr.kind = "status") => lastErr.code \notin FatalStatuses

C10_Witness ==
  /\ pc = "fetchRet" /\ fetchErr = ErrStatus(403)
  /\ nDo = 2 /\ sleeps = <<DefaultRetryDelay>> /\ i = 1

\* two to the power n
RECURSIVE Pow2(_)
Pow2(n) == IF n = 0 THEN 1 ELSE 2 * Pow2(n - 1)

\* the statuses the specification calls successful
SuccessStatuses == 200..299

\* the two sleeping places of a run
Waiting == pc \in {"backoff", "pace"}

\* C11: one fetchWithRetries makes at most MaxRetries (3) HTTP attempts, transport
\* failures and retryable statuses alike advancing the same counter; the k-th
\* backoff sleep lasts RetryDelay * 2^(k-1); and a retryable failure is reported
\* only as the error of MaxRetries exhausted attempts.
C11_AttemptsAndBackoff ==
  /\ nDo <= DefaultMaxRetries /\ nReq <= DefaultMaxRetries
  /\ Len(sleeps) <= nDo
  /\ \A k \in 1..Len(sleeps) : sleeps[k] = DefaultRetryDelay * Pow2(k - 1)
  /\ pc = "backoff" =>
       /\ delay = DefaultRetryDelay * Pow2(Len(sleeps))
       /\ i = Len(sleeps) /\ nDo = i + 1
       /\ lastErr \in {ErrTransport, ErrCancelled} \/ lastErr.kind = "status"
  /\ (pc = "fetchRet" /\ fetchErr.kind = "exhausted") =>
       /\ nDo = DefaultMaxRetries /\ fetchErr.attempts = DefaultMaxRetries
  /\ (pc = "fetchRet" /\ fetchErr # NoErr /\ nDo < DefaultMaxRetries) =>
       \/ fetchErr = ErrCreateRequest
       \/ \E c \in FatalStatuses : fetchErr = ErrStatus(c)

C11_Witness ==
  /\ pc = "fetchRet"
  /\ fetchErr = ErrExhausted(DefaultMaxRetries, ErrStatus(500))
  /\ nDo = DefaultMaxRetries /\ sleeps = <<1, 2, 4>>

\* C12 as stated: every response with a 2xx status is a success: none is turned
\* into an error, slept on or retried.
C12_AsStated ==
  /\ lastErr.kind = "status" => lastErr.code \notin SuccessStatuses
  /\ (pc = "fetchRet" /\ fetchErr.kind = "exhausted" /\ fetchErr.last.kind = "status")
       => fetchErr.last.code \notin SuccessStatuses

\* C13 as stated: a wait under a cancelled context ends without the sleep being
\* completed, and Search returns (from a backoff wait, through the return of
\* fetchWithRetries) without another attempt, page or wait.
C13_AsStated ==
  [][(ctxDone /\ Waiting) =>
       /\ sleeps' = sleeps \/ sleeps' = <<>>
       /\ paces' = paces
       /\ pc' \in {pc, "fetchRet", "done"}]_vars

\* a fetch has failed with the context's error, its attempts exhausted
CancelledFetch ==
  /\ failedAt.step = "fetch"
  /\ failedAt.cause = ErrExhausted(DefaultMaxRetries, ErrCancelled)

\* C14 as stated: a cancellation that fails the fetch of a page k >= 2 gives the
\* caller the records of the completed pages and a non-nil error; one that
\* fails the fetch of page 1 gives a hard failure.
C14_AsStated ==
  (Returned /\ CancelledFetch) =>
    IF failedAt.page = 1
      THEN result = NilResult /\ err # NoErr
      ELSE /\ ~result.isNil /\ result.Items = ConcatPages(parseLog)
           /\ err # NoErr

\* C14: a cancellation that fails the fetch of a page is handled as any fetch
\* failure: on page 1 a hard failure carrying the context's error, on a page
\* k >= 2 the records of pages 1..k-1 with a nil error; no result is ever
\* returned together with an error.
C14_CancellationIsAFetchFailure ==
  /\ CancelledFetch =>
       /\ Returned /\ ctxDone
       /\ IF failedAt.page = 1
            THEN result = NilResult /\ err = ErrFirstPage(failedAt.cause)
            ELSE /\ ~result.isNil /\ err = NoErr
                 /\ Len(parseLog) = failedAt.page - 1
                 /\ result.Items = ConcatPages(parseLog)
  /\ Returned => ~(~result.isNil /\ err # NoErr)

C14_Witness ==
  /\ Returned /\ CancelledFetch /\ failedAt.page = 2
  /\ err = NoErr /\ result.Items = <<2, 1>>

\* C15: at most one response body is open at any time: none during a backoff
\* wait or when the next attempt, the next page or the pacing wait begins, and
\* none after a failed fetch.
C15_AtMostOneOpenBody ==
  /\ openBodies \in 0..1
  /\ openBodies = 1 => pc \in {"status", "fetchRet", "parse"}
  /\ (openBodies = 1 /\ pc \in {"fetchRet", "parse"}) => body = "open"
  /\ (pc = "fetchRet" /\ fetchErr # NoErr) => openBodies = 0
  /\ pc = "status" => (resp # 0 /\ openBodies = 1)

C15_Witness ==
  /\ pc = "backoff" /\ page = 2 /\ nDo = 2
  /\ lastErr = ErrStatus(500) /\ openBodies = 0

\* C16: when Search has returned, on whatever path, no response body is open.
C16_NoBodyOpenAtReturn ==
  Returned => (openBodies = 0 /\ body = "nil" /\ resp = 0)

C16_Witness ==
  /\ Returned /\ failedAt.step = "parse" /\ failedAt.page = 2
  /\ nHTTP >= 2 /\ openBodies = 0

\* C17: Search returns either a result with a nil error or a nil result with an
\* error, never both and never neither.
C17_ResultXorError ==
  /\ Returned => \/ (~result.isNil /\ err = NoErr)
                 \/ (result.isNil /\ err # NoErr)
  /\ ~Returned => (result = NilResult /\ err = NoErr)

C17_Witness ==
  /\ Returned /\ result.isNil /\ err = ErrFirstPage(ErrStatus(404))

\* C20: the pages are taken in order 1, 2, ..., each once: buildSearchURL is
\* called for page j+1 only when page j has been fetched, parsed and appended
\* and its body closed, and no page is built or parsed a second time.
C20_PagesInOrderOnce ==
  /\ \A k \in 1..Len(urlPages) : urlPages[k] = k
  /\ \A k \in 1..Len(parseLog) : parseLog[k].page = k
  /\ Len(parseLog) <= Len(urlPages) /\ Len(urlPages) <= Len(parseLog) + 1
  /\ nParse <= Len(urlPages) /\ nParse \in {Len(parseLog), Len(parseLog) + 1}
  /\ httpPages \subseteq 1..Len(urlPages)
  /\ allRepos = ConcatPages(parseLog)
  /\ pc = "buildURL" =>
       /\ page = Len(urlPages) + 1 /\ Len(parseLog) = page - 1
       /\ nParse = page - 1 /\ httpPages = 1..(page - 1) /\ openBodies = 0

C20_Witness ==
  /\ pc = "buildURL" /\ page = 3 /\ urlPages = <<1, 2>>
  /\ Len(parseLog) = 2 /\ allRepos = <<2, 1, 1, 1>>

\* the totalCount Search keeps for the pages parsed
FirstTotal(log) == IF log = <<>> THEN 0 ELSE log[1].tc

\* C18 as stated: an attempt answered with a success (2xx) after fewer than
\* MaxRetries retryable failures ends the fetch as a first-attempt success does,
\* with the body and no error, and a returned result is what the parsed pages
\* alone determine.
C18_AsStated ==
  /\ [][(pc = "status" /\ resp \in SuccessStatuses /\ Len(sleeps) < DefaultMaxRetries)
          => \/ pc' = "status"
             \/ (pc' = "fetchRet" /\ fetchErr' = NoErr /\ body' = "open")]_vars
  /\ [](ReturnedResult =>
          result = MkResult(s.Source, query, FirstTotal(parseLog),
                            ConcatPages(parseLog)))

\* C19: with two invocations interleaved in every way, a step of one leaves the
\* other's frame as it was, and each one's requests and result are those its
\* own arguments and its own adapter's answers determine, as in a run alone.
C19_InvocationsAreIndependent ==
  /\ [][peer' # peer => (peer' = frame /\ frame' = peer)]_vars
  /\ [](/\ s \in {NewBaseRepoSearcher, NewGitLabSearcher}
        /\ query = "raft"
        /\ maxPages = (IF s = NewBaseRepoSearcher THEN 2 ELSE 1)
        /\ peer[4] # s
        /\ \A k \in 1..Len(urlPages) : urlPages[k] = k
        /\ Len(urlPages) <= maxPages
        /\ httpPages \subseteq 1..Len(urlPages)
        /\ nHTTP <= Len(urlPages) * DefaultMaxRetries
        /\ Len(parseLog) <= Len(urlPages)
        /\ allRepos = ConcatPages(parseLog)
        /\ totalCount = FirstTotal(parseLog)
        /\ openBodies \in 0..1
        /\ ReturnedResult =>
             result = MkResult(s.Source, query, FirstTotal(parseLog),
                               ConcatPages(parseLog)))

C19_Witness ==
  /\ s = NewGitLabSearcher /\ ReturnedResult /\ result.Items = <<1, 1>>
  /\ peer[5] = "backoff" /\ peer[6] = 2 /\ peer[7] = <<2, 1>>

\* C21 as stated: when fetchWithRetries returns, the adapter has been asked for
\* exactly as many requests as HTTP attempts were made.
C21_AsStated ==
  pc = "fetchRet" => nReq = nDo

\* C21: every HTTP attempt sends the request built for it, by its own call of
\* buildSearchRequest, just before: the calls are as many as the HTTP attempts,
\* or one more when the last call failed and ended the fetch with no attempt.
C21_FreshRequestPerAttempt ==
  /\ nDo <= nReq /\ nReq <= nDo + 1
  /\ pc = "buildReq" => nReq = nDo
  /\ pc = "do" => nReq = nDo + 1
  /\ pc \in {"status", "backoff"} => (nReq = nDo /\ nDo = i + 1)
  /\ pc = "fetchRet" =>
       nReq = (IF fetchErr = ErrCreateRequest THEN nDo + 1 ELSE nDo)

C21_Witness ==
  /\ pc = "fetchRet" /\ fetchErr = ErrCreateRequest
  /\ nReq = DefaultMaxRetries /\ nDo = DefaultMaxRetries - 1

\* C22: the pacing sleeps are exactly one after each page that the loop goes on
\* from: one between page j and page j+1 for every page j+1 started, and none
\* after the last page, however the run ended (hasMore false, zero records, a
\* failure, or page = maxPages).
C22_OnePaceBetweenPages ==
  /\ \A k \in 1..Len(paces) : paces[k] = k
  /\ Len(paces) = (IF pc = "buildURL" THEN page - 1
                   ELSE IF urlPages = <<>> THEN 0 ELSE Len(urlPages) - 1)
  /\ pc = "pace" =>
       /\ page < maxPages /\ Len(parseLog) = page
       /\ parseLog[page].hasMore /\ Len(parseLog[page].repos) > 0

C22_Witness ==
  /\ Returned /\ maxPages = 3 /\ paces = <<1, 2>>
  /\ Len(parseLog) = 3 /\ parseLog[3].hasMore /\ parseLog[3].repos = <<1>>

\* C25: the error of a fetch that exhausted its attempts wraps the error of the
\* last attempt made, each attempt's error replacing the one before, together
\* with the attempt count MaxRetries.
C25_ExhaustedWrapsLastError ==
  /\ [][(pc = "do" /\ pc' = "backoff")
          => lastErr' \in {ErrTransport, ErrCancelled}]_vars
  /\ [][(pc = "status" /\ pc' = "backoff") => lastErr' = ErrStatus(resp)]_vars
  /\ [][(pc = "backoff" /\ pc' = "fetchRet")
          => /\ fetchErr' = ErrExhausted(s.MaxRetries, lastErr)
             /\ i' = s.MaxRetries]_vars
  /\ []((pc = "fetchRet" /\ fetchErr.kind = "exhausted") =>
          /\ fetchErr.last = lastErr /\ lastErr # NoErr
          /\ fetchErr.attempts = DefaultMaxRetries /\ nDo = DefaultMaxRetries)

C25_Witness ==
  /\ pc = "fetchRet" /\ lastErr = ErrStatus(429)
  /\ fetchErr = ErrExhausted(DefaultMaxRetries, ErrStatus(429))

\* C26: Search terminates, whatever the adapter and the server answer, and by
\* then has made at most maxPages * MaxRetries HTTP attempts and at most
\* maxPages calls each of buildSearchURL and parseSearchResponse.
C26_TerminatesWithinBounds ==
  /\ <>Returned
  /\ []((query # "" /\ maxPages >= 1) =>
          /\ nHTTP <= maxPages * DefaultMaxRetries
          /\ nDo <= DefaultMaxRetries
          /\ Len(urlPages) <= maxPages
          /\ nParse <= maxPages)

C26_Witness ==
  /\ Returned /\ maxPages = 2
  /\ nHTTP = 2 * DefaultMaxRetries /\ Len(urlPages) = 2 /\ nParse = 2

\* C27: the searcher's configuration is never written, and every fetch starts
\* from the configured RetryDelay: its first backoff sleep lasts RetryDelay,
\* however many retries the pages before needed.
C27_ConfigurationUnchanged ==
  /\ s = NewBaseRepoSearcher
  /\ sleeps # <<>> => sleeps[1] = s.RetryDelay
  /\ (pc \in {"buildReq", "do", "status", "backoff"} /\ i = 0) =>
       delay = s.RetryDelay

C27_Witness ==
  /\ page = 2 /\ pc = "buildReq" /\ sleeps = <<DefaultRetryDelay>>
  /\ nDo = 1 /\ nHTTP = 3

\* C28: every retryable failed attempt is slept on, the last one too: an
\* exhausted fetch has made MaxRetries sleeps (d, 2d, 4d) before its error is
\* returned.
C28_SleepAfterEveryFailedAttempt ==
  /\ pc = "backoff" => Len(sleeps) = nDo - 1
  /\ pc \in {"buildReq", "do", "status"} => Len(sleeps) = i
  /\ (pc = "fetchRet" /\ fetchErr.kind = "exhausted") =>
       /\ Len(sleeps) = DefaultMaxRetries /\ nDo = DefaultMaxRetries
       /\ \A k \in 1..DefaultMaxRetries :
            sleeps[k] = DefaultRetryDelay * Pow2(k - 1)

C28_Witness ==
  /\ pc = "fetchRet" /\ page = 2
  /\ fetchErr = ErrExhausted(DefaultMaxRetries, ErrTransport)
  /\ Len(sleeps) = DefaultMaxRetries
  /\ sleeps[DefaultMaxRetries] = DefaultRetryDelay * 4

\* C29: a failure of buildSearchRequest ends fetchWithRetries at once, with no
\* HTTP call, no sleep and no other attempt after it, and Search handles it as
\* a fetch failure: a hard failure on page 1, the partial result on a later page.
C29_BuildRequestFailureReturnsAtOnce ==
  /\ [][(pc = "buildReq" /\ pc' \notin {"buildReq", "do"})
          => /\ pc' = "fetchRet" /\ fetchErr' = ErrCreateRequest
             /\ nReq' = nReq + 1 /\ nDo' = nDo /\ nHTTP' = nHTTP
             /\ sleeps' = sleeps /\ i' = i]_vars
  /\ []((pc = "fetchRet" /\ fetchErr = ErrCreateRequest) =>
          (Len(sleeps) = nDo /\ nReq = nDo + 1 /\ body = "nil"))
  /\ [](failedAt.cause = ErrCreateRequest =>
          /\ Returned /\ failedAt.step = "fetch"
          /\ IF failedAt.page = 1
               THEN result = NilResult /\ err = ErrFirstPage(ErrCreateRequest)
               ELSE /\ ~result.isNil /\ err = NoErr
                    /\ Len(parseLog) = failedAt.page - 1
                    /\ result.Items = ConcatPages(parseLog))

C29_Witness ==
  /\ Returned /\ err = NoErr /\ result.Items = <<1>> /\ nHTTP = 1
  /\ failedAt = [page |-> 2, step |-> "fetch", cause |-> ErrCreateRequest]

\* C30: a result returned without page 1 parsed (its parse failed) has no Items
\* and TotalCount 0, the zero value, not the -1 sentinel.
C30_ZeroTotalWithoutFirstPage ==
  (ReturnedResult /\ parseLog = <<>>) =>
    /\ failedAt.step = "parse" /\ failedAt.page = 1
    /\ result.Items = <<>> /\ result.TotalCount = 0

C30_Witness ==
  /\ ReturnedResult /\ failedAt.step = "parse" /\ failedAt.page = 1
  /\ nHTTP = 2 /\ result.TotalCount = 0 /\ result.Items = <<>>

\* the adapters whose hasMore is len > 0
LenAdapters == {"GitHub", "GitLab", "GitCode", "Gitee"}

C24_AsStated ==
  \A k \in 1..Len(allRepos) :
    /\ allRepos[k].Language # ""
    /\ allRepos[k].License # ""
    /\ ~allRepos[k].Topics.isNil

====
